---- MODULE Spec2Model ----
(***************************************************************************)
(* Student Management System: the record store shared by the CLI front-end *)
(* (student_management_system.py) and the GUI front-end (student_gui.py).  *)
(*                                                                         *)
(* Strings are sequences of one-character strings, so that strip(),        *)
(* lower(), title(), int(), float() and str() are computed, not assumed.   *)
(* A float is an integer count of thousandths, or one of the special       *)
(* values nan, inf, -inf.                                                  *)
(***************************************************************************)
EXTENDS Integers, Sequences, FiniteSets, TLC

VARIABLES
    frontend,   \* "cli" or "gui": which program this run is
    pc,         \* position of the front-end: the input() call it waits at
    students,   \* self.students: the in-memory list of dicts
    file,       \* the data file on disk
    out,        \* the last message printed by a handler
    saveOut,    \* the last message of save_data: "ok", "fail", or "none" since the menu
    loc,        \* the local variables of the handler in progress
    ioFailures, \* number of I/O failures the environment has injected so far
    ops,        \* number of handlers the user has started from the menu
    tree,       \* GUI: rows of the table widget, as tkinter hands them back
    dialog,     \* GUI: the StudentDialog window that is open, if any
    search_var, \* GUI: the text of the search box
    arg,        \* a validator called on its own: its argument
    ret         \* a validator called on its own: what it returned

vars == <<frontend, pc, students, file, out, saveOut, loc, ioFailures, ops,
          tree, dialog, search_var, arg, ret>>

(***************************************************************************)
(* Bounds                                                                  *)
(***************************************************************************)
MaxOps == 2
MaxIOFailures == 1

(***************************************************************************)
(* Characters and strings                                                  *)
(***************************************************************************)
UpperCase == <<"A","B","C","D","E","F","G","H","I","J","K","L","M",
               "N","O","P","Q","R","S","T","U","V","W","X","Y","Z">>
LowerCase == <<"a","b","c","d","e","f","g","h","i","j","k","l","m",
               "n","o","p","q","r","s","t","u","v","w","x","y","z">>
Digits == <<"0","1","2","3","4","5","6","7","8","9">>

IsUpper(c) == \E i \in 1..26 : UpperCase[i] = c
IsLower(c) == \E i \in 1..26 : LowerCase[i] = c
IsCased(c) == IsUpper(c) \/ IsLower(c)
IsDigit(c) == \E i \in 1..10 : Digits[i] = c
IsSpace(c) == c \in {" ", "\t"}

Lower(c) == IF IsUpper(c) THEN LowerCase[CHOOSE i \in 1..26 : UpperCase[i] = c] ELSE c
Upper(c) == IF IsLower(c) THEN UpperCase[CHOOSE i \in 1..26 : LowerCase[i] = c] ELSE c
DigitVal(c) == (CHOOSE i \in 1..10 : Digits[i] = c) - 1

\* str.lower()
LowerStr(s) == [i \in 1..Len(s) |-> Lower(s[i])]

\* str.strip(): drop leading and trailing whitespace
Strip(s) ==
    LET nonsp == {i \in 1..Len(s) : ~IsSpace(s[i])}
    IN  IF nonsp = {} THEN <<>>
        ELSE LET lo == CHOOSE i \in nonsp : \A j \in nonsp : i <= j
                 hi == CHOOSE i \in nonsp : \A j \in nonsp : i >= j
             IN  SubSeq(s, lo, hi)

\* str.title(): a cased character is upper-cased when the character before it
\* is not cased, and lower-cased otherwise
Title(s) ==
    [i \in 1..Len(s) |->
        IF i > 1 /\ IsCased(s[i-1]) THEN Lower(s[i]) ELSE Upper(s[i])]

\* `a in b` on strings
Contains(b, a) ==
    \E k \in 0..(Len(b) - Len(a)) : SubSeq(b, k + 1, k + Len(a)) = a

AllDigits(s) == Len(s) > 0 /\ \A i \in 1..Len(s) : IsDigit(s[i])

RECURSIVE DigitsVal(_)
DigitsVal(s) ==
    IF s = <<>> THEN 0
    ELSE 10 * DigitsVal(SubSeq(s, 1, Len(s) - 1)) + DigitVal(s[Len(s)])

RECURSIVE NatStr(_)
NatStr(n) ==
    IF n < 10 THEN <<Digits[n + 1]>>
    ELSE NatStr(n \div 10) \o <<Digits[(n % 10) + 1]>>

\* str(int)
IntStr(n) == IF n < 0 THEN <<"-">> \o NatStr(-n) ELSE NatStr(n)

HasSign(s) == Len(s) > 0 /\ s[1] \in {"+", "-"}
Unsigned(s) == IF HasSign(s) THEN Tail(s) ELSE s

\* int(s): an optional sign and decimal digits, surrounding whitespace allowed.
\* The result is [ok |-> FALSE] where int() raises ValueError.
ParseInt(s0) ==
    LET s == Strip(s0)
        u == Unsigned(s)
    IN  IF AllDigits(u)
        THEN [ok |-> TRUE,
              v |-> IF HasSign(s) /\ s[1] = "-" THEN -DigitsVal(u) ELSE DigitsVal(u)]
        ELSE [ok |-> FALSE, v |-> 0]

(***************************************************************************)
(* Floats: [kind, v] with kind "num" (v in thousandths), "nan", "inf"      *)
(* (v = 1 for +inf, -1 for -inf) or "err" where float() raises ValueError. *)
(***************************************************************************)
Scale == 1000
FracDigits == 3

Num(v) == [kind |-> "num", v |-> v]
NaN == [kind |-> "nan", v |-> 0]
Inf(sign) == [kind |-> "inf", v |-> sign]
FloatErr == [kind |-> "err", v |-> 0]

RECURSIVE Pow10(_)
Pow10(n) == IF n = 0 THEN 1 ELSE 10 * Pow10(n - 1)

\* float(s): sign, digits, optional fraction; or nan / inf / infinity in any case.
\* Exponents and underscores are not among the input characters used here, and
\* -0.0 is not told apart from 0.0.
ParseFloat(s0) ==
    LET s == Strip(s0)
        u == Unsigned(s)
        sign == IF HasSign(s) /\ s[1] = "-" THEN -1 ELSE 1
        lu == LowerStr(u)
        dots == {i \in 1..Len(u) : u[i] = "."}
    IN  IF lu = <<"n","a","n">> THEN NaN
        ELSE IF lu = <<"i","n","f">> \/ lu = <<"i","n","f","i","n","i","t","y">>
        THEN Inf(sign)
        ELSE IF dots = {} THEN
            IF AllDigits(u) THEN Num(sign * DigitsVal(u) * Scale) ELSE FloatErr
        ELSE IF Cardinality(dots) > 1 THEN FloatErr
        ELSE LET d == CHOOSE i \in dots : TRUE
                 ip == SubSeq(u, 1, d - 1)
                 fp == SubSeq(u, d + 1, Len(u))
             IN  IF /\ (ip = <<>> \/ AllDigits(ip))
                    /\ (fp = <<>> \/ AllDigits(fp))
                    /\ Len(ip) + Len(fp) > 0
                    /\ Len(fp) <= FracDigits
                 THEN Num(sign * (DigitsVal(ip) * Scale
                                  + DigitsVal(fp) * Pow10(FracDigits - Len(fp))))
                 ELSE FloatErr

\* the fraction digits of str(float): trailing zeros dropped, one digit kept
RECURSIVE FracStr(_, _)
FracStr(f, width) ==
    IF width = 1 THEN NatStr(f)
    ELSE IF f % 10 = 0 THEN FracStr(f \div 10, width - 1)
    ELSE FracStr(f \div Pow10(width - 1), 1)
         \o FracStr(f % Pow10(width - 1), width - 1)

\* str(float)
FloatStr(x) ==
    IF x.kind = "nan" THEN <<"n","a","n">>
    ELSE IF x.kind = "inf" THEN
        (IF x.v < 0 THEN <<"-">> ELSE <<>>) \o <<"i","n","f">>
    ELSE LET a == IF x.v < 0 THEN -x.v ELSE x.v
         IN  (IF x.v < 0 THEN <<"-">> ELSE <<>>)
             \o NatStr(a \div Scale) \o <<".">> \o FracStr(a % Scale, FracDigits)

\* the comparisons  x < n  and  x > n  of a float with an int literal:
\* every comparison with nan is False
FloatLess(x, n) ==
    IF x.kind = "nan" THEN FALSE
    ELSE IF x.kind = "inf" THEN x.v < 0
    ELSE x.v < n * Scale
FloatGreater(x, n) ==
    IF x.kind = "nan" THEN FALSE
    ELSE IF x.kind = "inf" THEN x.v > 0
    ELSE x.v > n * Scale

(***************************************************************************)
(* Records, validators                                                     *)
(***************************************************************************)
FieldNames == <<"roll_number", "name", "age", "marks">>

Range(q) == {q[i] : i \in 1..Len(q)}

Student(roll_number, name, age, marks) ==
    [roll_number |-> roll_number, name |-> name, age |-> age, marks |-> marks]

\* validate_roll_number: no record has exactly this roll number
validate_roll_number(sts, roll_number) ==
    ~\E i \in 1..Len(sts) : sts[i]["roll_number"] = roll_number

\* validate_age: the int, or None
validate_age(age_str) ==
    LET p == ParseInt(age_str)
    IN  IF p.ok /\ ~(p.v < 1 \/ p.v > 150)
        THEN [ok |-> TRUE, v |-> p.v]
        ELSE [ok |-> FALSE, v |-> 0]

\* validate_marks: the float, or None
validate_marks(marks_str) ==
    LET m == ParseFloat(marks_str)
    IN  IF m.kind # "err" /\ ~(FloatLess(m, 0) \/ FloatGreater(m, 100))
        THEN [ok |-> TRUE, v |-> m]
        ELSE [ok |-> FALSE, v |-> FloatErr]

\* validate_name
validate_name(name) == Strip(name) # <<>> /\ Len(Strip(name)) >= 2

(***************************************************************************)
(* The data file: its header line (empty when the file has no line) and    *)
(* its data rows, each a sequence of field values.                         *)
(***************************************************************************)
Absent == [kind |-> "absent", header |-> <<>>, rows |-> <<>>]
Corrupt == [kind |-> "corrupt", header |-> <<>>, rows |-> <<>>]
Csv(header, rows) == [kind |-> "csv", header |-> header, rows |-> rows]

IndexOf(q, x) == CHOOSE i \in 1..Len(q) : q[i] = x

\* csv.DictReader: the first line names the columns, every other line is a
\* dict from column name to the value in that column
DictReader(f) ==
    [i \in 1..Len(f.rows) |->
        [k \in Range(f.header) |-> f.rows[i][IndexOf(f.header, k)]]]

\* load_data: [students, out]
load_data(sts, f) ==
    IF f.kind = "absent" THEN [students |-> sts, out |-> "no_file"]
    ELSE IF f.kind = "corrupt" THEN [students |-> <<>>, out |-> "load_error"]
    ELSE [students |-> DictReader(f), out |-> "loaded"]

\* DictWriter._dict_to_list: a dict with a key outside fieldnames raises ValueError
Writable(st) == DOMAIN st \subseteq Range(FieldNames)
\* DictToList with the name and age columns written in each other's place
DictToList_swapped(st) ==
    [i \in 1..Len(FieldNames) |->
        st[FieldNames[IF i = 2 THEN 3 ELSE IF i = 3 THEN 2 ELSE i]]]
DictToList(st) == [i \in 1..Len(FieldNames) |-> st[FieldNames[i]]]

\* number of leading records writerows() writes before one raises
WritablePrefix(sts) ==
    CHOOSE n \in 0..Len(sts) :
        /\ \A i \in 1..n : Writable(sts[i])
        /\ (n < Len(sts) => ~Writable(sts[n + 1]))

\* save_data: the outcomes [file, ok] it can have.  io is what the
\* environment does to this write: "none", "open" (open() raises, the file is
\* untouched) or "write" (a write raises after the file was truncated and k
\* rows went out).
save_data(sts, f, io) ==
    IF io = "open" THEN {[file |-> f, ok |-> FALSE]}
    ELSE IF sts = <<>> THEN {[file |-> Csv(<<>>, <<>>), ok |-> TRUE]}
    ELSE LET n == WritablePrefix(sts)
             rows(k) == [i \in 1..k |-> DictToList(sts[i])]
         IN  IF io = "write"
             THEN {[file |-> Csv(FieldNames, rows(k)), ok |-> FALSE] : k \in 0..n}
                  \cup {[file |-> Csv(<<>>, <<>>), ok |-> FALSE]}
             ELSE IF n < Len(sts)
             THEN {[file |-> Csv(FieldNames, rows(n)), ok |-> FALSE]}
             ELSE {[file |-> Csv(FieldNames, rows(n)), ok |-> TRUE]}

\* the I/O failures the environment may still inject
IoChoices == IF ioFailures < MaxIOFailures THEN {"none", "open", "write"} ELSE {"none"}

\* FloatGE comparing with > in place of >=
FloatGE_strict(x, n) ==
    IF x.kind = "nan" THEN FALSE
    ELSE IF x.kind = "inf" THEN x.v > 0
    ELSE x.v > n * Scale
\* the comparison  x >= n  of a float with an int literal
FloatGE(x, n) ==
    IF x.kind = "nan" THEN FALSE
    ELSE IF x.kind = "inf" THEN x.v > 0
    ELSE x.v >= n * Scale

\* calculate_grade
calculate_grade(marks) ==
    IF FloatGE(marks, 90) THEN "A+"
    ELSE IF FloatGE(marks, 80) THEN "A"
    ELSE IF FloatGE(marks, 70) THEN "B+"
    ELSE IF FloatGE(marks, 60) THEN "B"
    ELSE IF FloatGE(marks, 50) THEN "C"
    ELSE IF FloatGE(marks, 40) THEN "D"
    ELSE "F"

(***************************************************************************)
(* display_statistics                                                      *)
(***************************************************************************)
\* x < y and x > y on two floats: every comparison with nan is False
FloatLT(x, y) ==
    IF x.kind = "nan" \/ y.kind = "nan" THEN FALSE
    ELSE IF x.kind = "inf" THEN x.v < 0 /\ ~(y.kind = "inf" /\ y.v < 0)
    ELSE IF y.kind = "inf" THEN y.v > 0
    ELSE x.v < y.v
FloatGT(x, y) == FloatLT(y, x)

\* x + y on two floats
FloatAdd(x, y) ==
    IF x.kind = "nan" \/ y.kind = "nan" THEN NaN
    ELSE IF x.kind = "inf" /\ y.kind = "inf" THEN (IF x.v = y.v THEN x ELSE NaN)
    ELSE IF x.kind = "inf" THEN x
    ELSE IF y.kind = "inf" THEN y
    ELSE Num(x.v + y.v)

\* [float(student['marks']) for student in self.students]
MarksList(sts) == [i \in 1..Len(sts) |-> ParseFloat(sts[i]["marks"])]

\* sum(l), starting from 0
RECURSIVE PySum(_)
PySum(l) ==
    IF l = <<>> THEN Num(0)
    ELSE FloatAdd(PySum(SubSeq(l, 1, Len(l) - 1)), l[Len(l)])

\* max(l) and min(l): the first element, replaced by each later element
\* that compares greater (smaller) than the one kept so far
RECURSIVE PyMax(_)
PyMax(l) ==
    IF Len(l) = 1 THEN l[1]
    ELSE LET kept == PyMax(SubSeq(l, 1, Len(l) - 1))
         IN  IF FloatGT(l[Len(l)], kept) THEN l[Len(l)] ELSE kept
RECURSIVE PyMin(_)
PyMin(l) ==
    IF Len(l) = 1 THEN l[1]
    ELSE LET kept == PyMin(SubSeq(l, 1, Len(l) - 1))
         IN  IF FloatLT(l[Len(l)], kept) THEN l[Len(l)] ELSE kept

\* sum / n for a float and a positive int, kept as the exact quotient v / den
FloatDivInt(x, n) == [kind |-> x.kind, v |-> x.v, den |-> n]

\* display_statistics on a non-empty list whose marks all parse: the numbers
\* it prints
display_statistics(sts) ==
    LET total_students == Len(sts)
        marks_list == MarksList(sts)
    IN  [total_students |-> total_students,
         avg_marks |-> FloatDivInt(PySum(marks_list), total_students),
         highest_marks |-> PyMax(marks_list),
         lowest_marks |-> PyMin(marks_list),
         grades |-> [g \in {"A+", "A", "B+", "B", "C", "D", "F"} |->
                        Cardinality({i \in 1..total_students :
                                        calculate_grade(marks_list[i]) = g})]]

(***************************************************************************)
(* sorted(), as view_all_students calls it                                 *)
(***************************************************************************)
\* the characters used in this model, in code point order
CodePoints ==
    <<"\t", " ", "+", "-", ".">> \o Digits \o UpperCase \o LowerCase
Ord(c) == CHOOSE i \in 1..Len(CodePoints) : CodePoints[i] = c

\* a < b on strings: by the first position where they differ, a proper
\* prefix being smaller
StrLT(a, b) ==
    \E k \in 1..Len(b) :
        /\ \A j \in 1..(k - 1) : j <= Len(a) /\ a[j] = b[j]
        /\ (k > Len(a) \/ Ord(a[k]) < Ord(b[k]))

\* key1 < key2 for the keys of one sort: floats or strings
KeyLT(kind, a, b) == IF kind = "float" THEN FloatLT(a, b) ELSE StrLT(a, b)

Reverse(q) == [i \in 1..Len(q) |-> q[Len(q) + 1 - i]]

\* list.sort's count_run: the length of the run the list starts with, k
\* elements of which are known; desc says the run is strictly descending
RECURSIVE CountRun(_, _, _, _, _)
CountRun(K, kind, a, k, desc) ==
    IF k < Len(a) /\ (KeyLT(kind, K[a[k + 1]], K[a[k]]) = desc)
    THEN CountRun(K, kind, a, k + 1, desc)
    ELSE k

\* list.sort's binary search for the place of pivot in the sorted a[l+1..r]
\* (l and r counted from 0): after every element that is not greater
RECURSIVE InsertPos(_, _, _, _, _, _)
InsertPos(K, kind, a, pivot, l, r) ==
    IF l >= r THEN l
    ELSE LET p == l + ((r - l) \div 2)
         IN  IF KeyLT(kind, K[pivot], K[a[p + 1]])
             THEN InsertPos(K, kind, a, pivot, l, p)
             ELSE InsertPos(K, kind, a, pivot, p + 1, r)

\* list.sort's binary insertion sort of a, whose first start elements are
\* sorted
RECURSIVE BinarySort(_, _, _, _)
BinarySort(K, kind, a, start) ==
    IF start >= Len(a) THEN a
    ELSE LET pivot == a[start + 1]
             l == InsertPos(K, kind, a, pivot, 0, start)
         IN  BinarySort(K, kind,
                        SubSeq(a, 1, l) \o <<pivot>> \o SubSeq(a, l + 1, start)
                            \o SubSeq(a, start + 2, Len(a)),
                        start + 1)

\* sorted(list, key=..., reverse=...) for a short list: the indices of the
\* list in sorted order, K being the keys.  reverse=True reverses the list,
\* sorts it and reverses the result.
PySorted(K, kind, reverse) ==
    LET n == Len(K)
        a0 == IF reverse THEN [i \in 1..n |-> n + 1 - i] ELSE [i \in 1..n |-> i]
        a1 == IF n < 2 THEN a0
              ELSE LET desc == KeyLT(kind, K[a0[2]], K[a0[1]])
                       k == CountRun(K, kind, a0, 2, desc)
                       a == IF desc THEN Reverse(SubSeq(a0, 1, k)) \o SubSeq(a0, k + 1, n)
                            ELSE a0
                   IN  BinarySort(K, kind, a, k)
    IN  IF reverse THEN Reverse(a1) ELSE a1

\* sorted_students of view_all_students for a sort option: the indices of
\* self.students in the order of the table
sorted_students(sts, choice) ==
    IF choice = "1"
    THEN PySorted([i \in 1..Len(sts) |-> sts[i]["roll_number"]], "str", FALSE)
    ELSE IF choice = "2"
    THEN PySorted([i \in 1..Len(sts) |-> LowerStr(sts[i]["name"])], "str", FALSE)
    ELSE IF choice = "3"
    THEN PySorted(MarksList(sts), "float", TRUE)
    ELSE [i \in 1..Len(sts) |-> i]

(***************************************************************************)
(* Inputs: the lines a user may type at each prompt, and the data files    *)
(* the program may be started on.                                          *)
(***************************************************************************)
RollInputs == {<<"C","S","1">>, <<" ","c","s","1">>, <<>>}
NameInputs == {<<"a","l">>, <<"b","O"," ","b"," ">>, <<"a"," ">>, <<>>}
AgeInputs == {<<"1","5","0">>, <<"0">>, <<"1","5","1">>, <<"x">>, <<>>}
MarksInputs == {<<"9","5">>, <<"n","a","n">>, <<"i","n","f">>,
                <<"1","0","0",".","5">>, <<"-","1">>, <<"x">>, <<>>}
MenuInputs == {"1", "2", "3", "4", "5", "6", "7", "x"}
ConfirmInputs == {<<"Y">>, <<"y","e","s">>, <<"n">>, <<"N","o">>, <<"q">>}

Al == Student(<<"C","S","1">>, <<"A","l">>, <<"7">>, <<"9","5",".","0">>)

InitFiles ==
    { Absent,
      Corrupt,
      \* a file this program wrote
      Csv(FieldNames, <<DictToList(Al)>>),
      \* a file edited by hand: the same roll number twice
      Csv(FieldNames, <<DictToList(Al),
                        <<Al.roll_number, <<"B","o">>, <<"7">>, <<"1","0","0",".","0">>>>>>),
      \* a file edited by hand: values no validator would accept
      Csv(FieldNames, <<<<<<"c","s","1">>, <<"a">>, <<"0">>, <<"1","0","1">>>>>>),
      \* a file exported from a spreadsheet with a grade column
      Csv(FieldNames \o <<"grade">>, <<DictToList(Al) \o <<<<"A","+">>>>>>) }

NoLoc == [roll |-> <<>>, name |-> <<>>, age |-> 0, idx |-> 0,
          choice |-> "", updated |-> FALSE]
NoDialog == [open |-> FALSE, result |-> <<>>]

Init ==
    /\ frontend \in {"cli", "gui"}
    /\ pc = "init"
    /\ students = <<>>
    /\ file \in InitFiles
    /\ out = "none"
    /\ saveOut = "none"
    /\ loc = NoLoc
    /\ ioFailures = 0
    /\ ops = 0
    /\ tree = <<>>
    /\ dialog = NoDialog
    /\ search_var = <<>>
    /\ arg = <<>>
    /\ ret = "none"

gui == <<tree, dialog, search_var, arg, ret>>
call == <<arg, ret>>

\* what no CLI prompt changes
fixed == <<frontend, ops, tree, dialog, search_var, arg, ret>>

\* self.save_data() on the list sts, under whatever the environment does
Save(sts) ==
    \E io \in IoChoices : \E r \in save_data(sts, file, io) :
        /\ file' = r.file
        /\ saveOut' = IF r.ok THEN "ok" ELSE "fail"
        /\ ioFailures' = IF io = "none" THEN ioFailures ELSE ioFailures + 1

NoSave == UNCHANGED <<file, saveOut, ioFailures>>

\* FindExact comparing the way search_student does, ignoring case
FindExact_ci(sts, r) ==
    IF \E i \in 1..Len(sts) : LowerStr(sts[i]["roll_number"]) = LowerStr(r)
    THEN CHOOSE i \in 1..Len(sts) :
            /\ LowerStr(sts[i]["roll_number"]) = LowerStr(r)
            /\ \A j \in 1..(i - 1) : LowerStr(sts[j]["roll_number"]) # LowerStr(r)
    ELSE 0

\* the first index whose roll number is exactly r, or 0
FindExact(sts, r) ==
    IF \E i \in 1..Len(sts) : sts[i]["roll_number"] = r
    THEN CHOOSE i \in 1..Len(sts) :
            /\ sts[i]["roll_number"] = r
            /\ \A j \in 1..(i - 1) : sts[j]["roll_number"] # r
    ELSE 0

\* float(student['marks']) succeeds for every record of sts
MarksParse(sts) ==
    \A i \in 1..Len(sts) : ParseFloat(sts[i]["marks"]).kind # "err"

(***************************************************************************)
(* CLI: StudentManagementSystem.  One action per input() call.             *)
(***************************************************************************)
\* main(): StudentManagementSystem() then run() up to the first prompt
CliConstruct ==
    /\ frontend = "cli" /\ pc = "init"
    /\ LET r == load_data(students, file)
       IN  students' = r.students /\ out' = r.out
    /\ pc' = "menu"
    /\ UNCHANGED <<loc, fixed>> /\ NoSave

AtMenu == frontend = "cli" /\ pc = "menu"

\* the user starts one more handler
Start == AtMenu /\ ops < MaxOps /\ ops' = ops + 1 /\ UNCHANGED <<frontend, gui>>

\* a handler that prints a message and returns: run() then asks for Enter
Return(msg) ==
    /\ out' = msg /\ pc' = "continue" /\ loc' = NoLoc

\* choice 1: add_student up to its first prompt
MenuAdd ==
    /\ Start
    /\ pc' = "add_roll" /\ out' = "add_banner" /\ saveOut' = "none"
    /\ UNCHANGED <<students, file, loc, ioFailures>>

\* choice 2: view_all_students up to the sort prompt
MenuView ==
    /\ Start /\ saveOut' = "none"
    /\ IF students = <<>> THEN Return("empty")
       ELSE pc' = "view_sort" /\ out' = "sort_options" /\ loc' = loc
    /\ UNCHANGED <<students, file, ioFailures>>

\* choice 3: search_student up to the option prompt
MenuSearch ==
    /\ Start /\ saveOut' = "none"
    /\ IF students = <<>> THEN Return("empty")
       ELSE pc' = "search_choice" /\ out' = "search_options" /\ loc' = loc
    /\ UNCHANGED <<students, file, ioFailures>>

\* choice 4: update_student up to the roll number prompt
MenuUpdate ==
    /\ Start /\ saveOut' = "none"
    /\ IF students = <<>> THEN Return("empty")
       ELSE pc' = "upd_roll" /\ out' = "update_banner" /\ loc' = loc
    /\ UNCHANGED <<students, file, ioFailures>>

\* choice 5: delete_student up to the roll number prompt
MenuDelete ==
    /\ Start /\ saveOut' = "none"
    /\ IF students = <<>> THEN Return("empty")
       ELSE pc' = "del_roll" /\ out' = "delete_banner" /\ loc' = loc
    /\ UNCHANGED <<students, file, ioFailures>>

\* MenuStatistics without the check for an empty list
MenuStatistics_nocheck ==
    /\ Start /\ saveOut' = "none"
    /\ IF MarksParse(students) THEN Return("statistics")
       ELSE out' = "unexpected_error" /\ pc' = "menu" /\ loc' = NoLoc
    /\ UNCHANGED <<students, file, ioFailures>>

\* choice 6: display_statistics; float() of a stored marks may raise, which
\* run() catches and goes back to the menu
MenuStatistics ==
    /\ Start /\ saveOut' = "none"
    /\ IF students = <<>> THEN Return("empty")
       ELSE IF MarksParse(students) THEN Return("statistics")
       ELSE out' = "unexpected_error" /\ pc' = "menu" /\ loc' = NoLoc
    /\ UNCHANGED <<students, file, ioFailures>>

\* choice 7: save and leave the loop
MenuExit ==
    /\ AtMenu
    /\ Save(students)
    /\ pc' = "done" /\ out' = "bye"
    /\ UNCHANGED <<students, loc, fixed>>

\* any other choice
MenuInvalid ==
    /\ AtMenu
    /\ \E c \in MenuInputs : c \notin {"1", "2", "3", "4", "5", "6", "7"}
    /\ out' = "invalid_choice" /\ saveOut' = "none"
    /\ UNCHANGED <<pc, students, file, loc, ioFailures, fixed>>

\* "Press Enter to continue"
Continue ==
    /\ frontend = "cli" /\ pc = "continue"
    /\ pc' = "menu"
    /\ UNCHANGED <<students, file, out, saveOut, loc, ioFailures, fixed>>

(***************************************************************************)
(* add_student                                                             *)
(***************************************************************************)
At(p) == frontend = "cli" /\ pc = p

\* a prompt that rejects its input and asks again
Again(msg) ==
    /\ out' = msg
    /\ UNCHANGED <<pc, students, file, saveOut, loc, ioFailures, fixed>>

\* a prompt that accepts its input and moves to the next prompt
Goto(p, l) ==
    /\ pc' = p /\ loc' = l
    /\ UNCHANGED <<students, file, out, saveOut, ioFailures, fixed>>

\* NewStudent storing the name as typed, without title()
NewStudent_raw(roll_number, name, age, marks) ==
    Student(roll_number, name, IntStr(age), FloatStr(marks))

\* the record add_student builds from its validated inputs
NewStudent(roll_number, name, age, marks) ==
    Student(roll_number, Title(name), IntStr(age), FloatStr(marks))

AddRoll ==
    /\ At("add_roll")
    /\ \E s \in RollInputs :
        LET roll_number == Strip(s)
        IN  IF roll_number = <<>> THEN Again("roll_empty")
            ELSE IF ~validate_roll_number(students, roll_number)
            THEN Again("roll_exists")
            ELSE Goto("add_name", [loc EXCEPT !.roll = roll_number])

AddName ==
    /\ At("add_name")
    /\ \E s \in NameInputs :
        LET name == Strip(s)
        IN  IF ~validate_name(name) THEN Again("name_short")
            ELSE Goto("add_age", [loc EXCEPT !.name = name])

AddAge ==
    /\ At("add_age")
    /\ \E s \in AgeInputs :
        LET age == validate_age(Strip(s))
        IN  IF ~age.ok THEN Again("age_invalid")
            ELSE Goto("add_marks", [loc EXCEPT !.age = age.v])

\* AddMarks taking the new record back out of the list when the save fails
AddMarks_rollback ==
    /\ At("add_marks")
    /\ \E s \in MarksInputs :
        LET marks == validate_marks(Strip(s))
            added == Append(students, NewStudent(loc.roll, loc.name, loc.age, marks.v))
        IN  IF ~marks.ok THEN Again("marks_invalid")
            ELSE /\ Save(added)
                 /\ students' = IF saveOut' = "fail" THEN students ELSE added
                 /\ Return("added")
                 /\ UNCHANGED fixed

AddMarks ==
    /\ At("add_marks")
    /\ \E s \in MarksInputs :
        LET marks == validate_marks(Strip(s))
        IN  IF ~marks.ok THEN Again("marks_invalid")
            ELSE /\ students' = Append(students,
                                   NewStudent(loc.roll, loc.name, loc.age, marks.v))
                 /\ Save(students')
                 /\ Return("added")
                 /\ UNCHANGED fixed

(***************************************************************************)
(* view_all_students, search_student                                       *)
(***************************************************************************)
\* the table loop calls float() on every marks; a ValueError reaches run()
Display(sts, msg) ==
    IF MarksParse(sts) THEN Return(msg)
    ELSE out' = "unexpected_error" /\ pc' = "menu" /\ loc' = NoLoc

\* the records of sts in the order of the index list idxs
Pick(sts, idxs) == [i \in 1..Len(idxs) |-> sts[idxs[i]]]

\* ViewSort with list.sort() on the list itself in place of sorted()
ViewSort_inplace ==
    /\ At("view_sort")
    /\ \E c \in MenuInputs :
        IF c \in {"1", "2", "3", "4"}
        THEN /\ IF MarksParse(students)
                THEN /\ Display(Pick(students, sorted_students(students, c)), "table")
                     /\ students' = Pick(students, sorted_students(students, c))
                ELSE Display(students, "table") /\ students' = students
             /\ UNCHANGED <<file, saveOut, ioFailures, fixed>>
        ELSE Again("bad_option")

\* the sort prompt of view_all_students and its table
ViewSort ==
    /\ At("view_sort")
    /\ \E c \in MenuInputs :
        IF c \in {"1", "2", "3", "4"}
        THEN /\ IF MarksParse(students)
                THEN Display(Pick(students, sorted_students(students, c)), "table")
                ELSE Display(students, "table")
             /\ UNCHANGED <<students, file, saveOut, ioFailures, fixed>>
        ELSE Again("bad_option")

SearchChoice ==
    /\ At("search_choice")
    /\ \E c \in MenuInputs :
        IF c \in {"1", "2"} THEN Goto("search_term", [loc EXCEPT !.choice = c])
        ELSE Again("bad_option")

\* SearchByName comparing the term as typed, without lower()
SearchByName_cased(sts, term) ==
    {i \in 1..Len(sts) : Contains(LowerStr(sts[i]["name"]), term)}
\* the indices search_student collects for a term
SearchByRoll(sts, term) ==
    {i \in 1..Len(sts) : LowerStr(sts[i]["roll_number"]) = LowerStr(term)}
SearchByName(sts, term) ==
    {i \in 1..Len(sts) : Contains(LowerStr(sts[i]["name"]), LowerStr(term))}
Found(sts, choice, term) ==
    IF choice = "1" THEN SearchByRoll(sts, term) ELSE SearchByName(sts, term)

\* the elements of sts at the indices in idxs, in list order
RECURSIVE Select(_, _)
Select(sts, idxs) ==
    IF sts = <<>> THEN <<>>
    ELSE Select(SubSeq(sts, 1, Len(sts) - 1), idxs)
         \o (IF Len(sts) \in idxs THEN <<sts[Len(sts)]>> ELSE <<>>)

SearchTerm ==
    /\ At("search_term")
    /\ \E s \in RollInputs \cup NameInputs :
        LET search_term == Strip(s)
            found == Select(students, Found(students, loc.choice, search_term))
        IN  IF search_term = <<>> THEN Return("term_empty")
            ELSE IF found = <<>> THEN Return("none_found")
            ELSE Display(found, "found")
    /\ UNCHANGED <<students, file, saveOut, ioFailures, fixed>>

(***************************************************************************)
(* update_student                                                          *)
(***************************************************************************)
UpdRoll ==
    /\ At("upd_roll")
    /\ \E s \in RollInputs :
        LET roll_number == Strip(s)
            student_index == FindExact(students, roll_number)
        IN  IF roll_number = <<>> THEN Return("roll_empty")
            ELSE IF student_index = 0 THEN Return("upd_not_found")
            ELSE /\ pc' = "upd_choice" /\ out' = "current_details"
                 /\ loc' = [loc EXCEPT !.roll = roll_number, !.idx = student_index]
    /\ UNCHANGED <<students, file, saveOut, ioFailures, fixed>>

UpdChoice ==
    /\ At("upd_choice")
    /\ \E c \in MenuInputs :
        IF c \in {"1", "4"} THEN Goto("upd_name", [loc EXCEPT !.choice = c])
        ELSE IF c = "2" THEN Goto("upd_age", [loc EXCEPT !.choice = c])
        ELSE IF c = "3" THEN Goto("upd_marks", [loc EXCEPT !.choice = c])
        ELSE Again("bad_option")

\* UpdFinish that forgets to save
UpdFinish_nosave(sts, updated) ==
    /\ students' = sts
    /\ NoSave
    /\ Return(IF updated THEN "updated" ELSE "no_changes")
    /\ UNCHANGED fixed

\* the tail of update_student: save when something was updated
UpdFinish(sts, updated) ==
    /\ students' = sts
    /\ IF updated THEN Save(sts) /\ Return("updated")
       ELSE NoSave /\ Return("no_changes")
    /\ UNCHANGED fixed

\* UpdSet writing the new value under the roll_number key
UpdSet_roll(field, value, next) ==
    LET sts == [students EXCEPT ![loc.idx]["roll_number"] = value]
    IN  /\ students' = sts
        /\ Save(sts) /\ Return("updated")
        /\ UNCHANGED fixed

\* current_student[field] = value, then the next prompt of this choice
UpdSet(field, value, next) ==
    LET sts == [students EXCEPT ![loc.idx][field] = value]
    IN  IF next = "finish" THEN UpdFinish(sts, TRUE)
        ELSE /\ students' = sts
             /\ pc' = next /\ loc' = [loc EXCEPT !.updated = TRUE]
             /\ UNCHANGED <<file, out, saveOut, ioFailures, fixed>>

\* UpdSkip storing the blank line as the new value
UpdSkip_clear(next) ==
    UpdSet(IF pc = "upd_age" THEN "age" ELSE "marks", <<>>, next)

\* a blank line at the age or marks prompt: keep the value, next prompt
UpdSkip(next) ==
    IF next = "finish" THEN UpdFinish(students, loc.updated)
    ELSE Goto(next, loc)

UpdName ==
    /\ At("upd_name")
    /\ \E s \in NameInputs :
        LET new_name == Strip(s)
        IN  IF new_name = <<>> THEN Again("name_empty")
            ELSE IF ~validate_name(new_name) THEN Again("name_short")
            ELSE UpdSet("name", Title(new_name),
                        IF loc.choice = "4" THEN "upd_age" ELSE "finish")

UpdAge ==
    /\ At("upd_age")
    /\ \E s \in AgeInputs :
        LET age_str == Strip(s)
            age == validate_age(age_str)
            next == IF loc.choice = "4" THEN "upd_marks" ELSE "finish"
        IN  IF age_str = <<>> THEN UpdSkip(next)
            ELSE IF ~age.ok THEN Again("age_invalid")
            ELSE UpdSet("age", IntStr(age.v), next)

UpdMarks ==
    /\ At("upd_marks")
    /\ \E s \in MarksInputs :
        LET marks_str == Strip(s)
            marks == validate_marks(marks_str)
        IN  IF marks_str = <<>> THEN UpdSkip("finish")
            ELSE IF ~marks.ok THEN Again("marks_invalid")
            ELSE UpdSet("marks", FloatStr(marks.v), "finish")

(***************************************************************************)
(* delete_student                                                          *)
(***************************************************************************)
DelRoll ==
    /\ At("del_roll")
    /\ \E s \in RollInputs :
        LET roll_number == Strip(s)
            student_index == FindExact(students, roll_number)
        IN  IF roll_number = <<>> THEN Return("roll_empty")
            ELSE IF student_index = 0 THEN Return("del_not_found")
            ELSE /\ pc' = "del_confirm" /\ out' = "confirm_prompt"
                 /\ loc' = [loc EXCEPT !.roll = roll_number, !.idx = student_index]
    /\ UNCHANGED <<students, file, saveOut, ioFailures, fixed>>

\* Remove dropping the i-th element and everything after it
Remove_tail(sts, i) == SubSeq(sts, 1, i - 1)
\* del self.students[i]
Remove(sts, i) == SubSeq(sts, 1, i - 1) \o SubSeq(sts, i + 1, Len(sts))

DelConfirm ==
    /\ At("del_confirm")
    /\ \E s \in ConfirmInputs :
        LET confirm == LowerStr(Strip(s))
        IN  IF confirm \in {<<"y">>, <<"y","e","s">>}
            THEN /\ students' = Remove(students, loc.idx)
                 /\ Save(students')
                 /\ Return("deleted")
                 /\ UNCHANGED fixed
            ELSE IF confirm \in {<<"n">>, <<"n","o">>}
            THEN /\ Return("cancelled")
                 /\ UNCHANGED <<students, file, saveOut, ioFailures, fixed>>
            ELSE Again("bad_confirm")

(***************************************************************************)
(* run(): what an input() call can raise                                   *)
(***************************************************************************)
Prompts == {"menu", "continue", "add_roll", "add_name", "add_age", "add_marks",
            "view_sort", "search_choice", "search_term", "upd_roll", "upd_choice",
            "upd_name", "upd_age", "upd_marks", "del_roll", "del_confirm"}

\* EOFError at any prompt: caught by `except Exception`, the loop goes on
EndOfInput ==
    /\ frontend = "cli" /\ pc \in Prompts
    /\ out' = "unexpected_error" /\ pc' = "menu" /\ loc' = NoLoc
    /\ UNCHANGED <<students, file, saveOut, ioFailures, fixed>>

\* KeyboardInterrupt at any prompt: save, leave the loop
Interrupt ==
    /\ frontend = "cli" /\ pc \in Prompts
    /\ Save(students)
    /\ out' = "goodbye" /\ pc' = "done" /\ loc' = NoLoc
    /\ UNCHANGED <<students, fixed>>

CliNext ==
    \/ CliConstruct
    \/ MenuAdd \/ MenuView \/ MenuSearch \/ MenuUpdate \/ MenuDelete
    \/ MenuStatistics \/ MenuExit \/ MenuInvalid \/ Continue
    \/ AddRoll \/ AddName \/ AddAge \/ AddMarks
    \/ ViewSort \/ SearchChoice \/ SearchTerm
    \/ UpdRoll \/ UpdChoice \/ UpdName \/ UpdAge \/ UpdMarks
    \/ DelRoll \/ DelConfirm
    \/ EndOfInput \/ Interrupt

(***************************************************************************)
(* GUI: StudentGUI and StudentDialog.  One action per event callback.      *)
(***************************************************************************)
SearchInputs == {<<>>, <<"a","l">>}

\* StudentGUI.load_data, called when the status bar exists or not:
\* update_status raises AttributeError without one, and the except clause
\* empties the list
gui_load_data(sts, f, has_status_bar) ==
    IF f.kind = "corrupt" THEN [students |-> <<>>, out |-> "load_error_box"]
    ELSE LET read == IF f.kind = "csv" THEN DictReader(f) ELSE sts
         IN  IF has_status_bar
             THEN [students |-> read,
                   out |-> IF f.kind = "csv" THEN "loaded" ELSE "no_file"]
             ELSE [students |-> <<>>, out |-> "load_error_box"]

\* a value of a table row as tree.item() returns it: tkinter turns every
\* string int() accepts into an int
TkValue(s) ==
    LET p == ParseInt(s)
    IN  [isInt |-> p.ok, int |-> p.v, str |-> IF p.ok THEN <<>> ELSE s]

\* str == value, for a str and a value read back from the table
EqTk(s, v) == ~v.isInt /\ v.str = s

\* get_filtered_students (grade filter at "All")
get_filtered_students(sts, term) ==
    LET t == LowerStr(term)
    IN  IF t = <<>> THEN sts
        ELSE Select(sts, {i \in 1..Len(sts) :
                \/ Contains(LowerStr(sts[i]["name"]), t)
                \/ Contains(LowerStr(sts[i]["roll_number"]), t)})

\* refresh_table: the rows inserted into the table
refresh_table(sts, term) ==
    LET f == get_filtered_students(sts, term)
    IN  [i \in 1..Len(f) |->
            [roll_number |-> TkValue(f[i]["roll_number"]), name |-> f[i]["name"]]]

\* StudentGUI(): setup_main_window, load_data, create_widgets, refresh_table;
\* the status bar is made by create_widgets
GuiConstruct ==
    /\ frontend = "gui" /\ pc = "init"
    /\ LET r == gui_load_data(students, file, FALSE)
       IN  /\ students' = r.students /\ out' = r.out
           /\ tree' = refresh_table(r.students, search_var)
           /\ pc' = IF MarksParse(r.students) THEN "mainloop" ELSE "crashed"
    /\ UNCHANGED <<call, frontend, loc, ops, dialog, search_var>> /\ NoSave

AtLoop == frontend = "gui" /\ pc = "mainloop"

\* StudentDialog.__init__: builds the window and returns at once (no
\* wait_window), so result is still None when the caller reads it
StudentDialogInit == [open |-> TRUE, result |-> <<>>]

\* the rest of a GUI handler that changed the list: save, refresh, status
GuiCommit(sts, msg) ==
    /\ students' = sts
    /\ Save(sts)
    /\ tree' = refresh_table(sts, search_var)
    /\ pc' = IF MarksParse(sts) THEN pc ELSE "crashed"
    /\ out' = msg

GuiSkip(msg) ==
    /\ out' = msg
    /\ UNCHANGED <<students, tree, pc>> /\ NoSave

add_student_dialog ==
    /\ AtLoop /\ ~dialog.open
    /\ dialog' = StudentDialogInit
    /\ LET result == dialog'.result
       IN  IF result # <<>>
           THEN IF \E i \in 1..Len(students) :
                        students[i]["roll_number"] = result[1]["roll_number"]
                THEN GuiSkip("roll_exists_box")
                ELSE GuiCommit(Append(students, result[1]), "added_status")
           ELSE GuiSkip(out)
    /\ UNCHANGED <<call, frontend, loc, ops, search_var>>

\* dict.update: the keys of d overwrite those of st
DictUpdate(st, d) ==
    [k \in DOMAIN st \cup DOMAIN d |-> IF k \in DOMAIN d THEN d[k] ELSE st[k]]

edit_student_dialog ==
    /\ AtLoop /\ ~dialog.open
    /\ \E sel \in 0..Len(tree) :
        IF sel = 0
        THEN GuiSkip("select_warning") /\ dialog' = dialog
        ELSE LET roll_number == tree[sel].roll_number
                 hits == {i \in 1..Len(students) :
                            EqTk(students[i]["roll_number"], roll_number)}
             IN  IF hits = {}
                 THEN GuiSkip("not_found_box") /\ dialog' = dialog
                 ELSE LET i == CHOOSE i \in hits : \A j \in hits : i <= j
                      IN  /\ dialog' = StudentDialogInit
                          /\ IF dialog'.result # <<>>
                             THEN GuiCommit(
                                    [students EXCEPT
                                        ![i] = DictUpdate(@, dialog'.result[1])],
                                    "updated_status")
                             ELSE GuiSkip(out)
    /\ UNCHANGED <<call, frontend, loc, ops, search_var>>

gui_delete_student ==
    /\ AtLoop /\ ~dialog.open
    /\ \E sel \in 0..Len(tree) : \E yes \in BOOLEAN :
        IF sel = 0 THEN GuiSkip("select_warning")
        ELSE IF ~yes THEN GuiSkip(out)
        ELSE LET roll_number == tree[sel].roll_number
                 keep == {i \in 1..Len(students) :
                            ~EqTk(students[i]["roll_number"], roll_number)}
             IN  GuiCommit(Select(students, keep), "deleted_status")
    /\ UNCHANGED <<call, frontend, loc, ops, dialog, search_var>>

\* StudentDialog.save_student: the Save button of the open dialog
save_student ==
    /\ frontend = "gui" /\ pc = "mainloop" /\ dialog.open
    /\ \E r \in RollInputs, n \in NameInputs, a \in AgeInputs, m \in MarksInputs :
        LET roll_number == Strip(r)
            name == Strip(n)
            age == ParseInt(Strip(a))
            marks == ParseFloat(Strip(m))
        IN  IF \/ roll_number = <<>>
               \/ name = <<>> \/ Len(name) < 2
               \/ ~age.ok \/ age.v < 1 \/ age.v > 150
               \/ marks.kind = "err" \/ FloatLess(marks, 0) \/ FloatGreater(marks, 100)
            THEN out' = "validation_error" /\ dialog' = dialog
            ELSE /\ dialog' = [open |-> FALSE,
                               result |-> <<NewStudent(roll_number, name, age.v, marks)>>]
                 /\ out' = out
    /\ UNCHANGED <<call, frontend, pc, students, loc, ops, tree, search_var>> /\ NoSave

\* the Cancel button of the open dialog
cancel_dialog ==
    /\ frontend = "gui" /\ pc = "mainloop" /\ dialog.open
    /\ dialog' = [dialog EXCEPT !.open = FALSE]
    /\ UNCHANGED <<call, frontend, pc, students, out, loc, ops, tree, search_var>> /\ NoSave

on_search_change ==
    /\ AtLoop /\ ~dialog.open
    /\ \E s \in SearchInputs :
        /\ search_var' = s
        /\ tree' = refresh_table(students, s)
    /\ UNCHANGED <<call, frontend, pc, students, out, loc, ops, dialog>> /\ NoSave

\* show_statistics: an info box for an empty list, else StatisticsWindow,
\* whose create_statistics computes the numbers (float() of a stored marks
\* may raise; tkinter reports the exception and the main loop goes on)
show_statistics ==
    /\ AtLoop /\ ~dialog.open
    /\ IF students = <<>> THEN GuiSkip("no_students_info")
       ELSE IF MarksParse(students) THEN GuiSkip("statistics_window")
       ELSE GuiSkip("callback_exception")
    /\ UNCHANGED <<call, frontend, loc, ops, dialog, search_var>>

\* export_data: an info box for an empty list, else ExportDialog, whose
\* export_csv / export_json write copies of the records, with a grade, to
\* the file the user names in the file dialog (float() of a stored marks
\* may raise, which the dialog reports)
export_data ==
    /\ AtLoop /\ ~dialog.open
    /\ IF students = <<>> THEN GuiSkip("no_data_info")
       ELSE IF MarksParse(students) THEN GuiSkip("exported")
       ELSE GuiSkip("export_failed")
    /\ UNCHANGED <<call, frontend, loc, ops, dialog, search_var>>

\* on_closing: save, destroy the window
on_closing ==
    /\ AtLoop
    /\ Save(students)
    /\ pc' = "done"
    /\ UNCHANGED <<call, frontend, students, out, loc, ops, tree, dialog, search_var>>

GuiNext ==
    \/ GuiConstruct
    \/ add_student_dialog \/ edit_student_dialog \/ gui_delete_student
    \/ save_student \/ cancel_dialog \/ on_search_change \/ on_closing
    \/ show_statistics \/ export_data

Next == CliNext \/ GuiNext


Spec == Init /\ [][Next]_vars

(***************************************************************************)
(* The validators as pure functions: validate_marks called on every string *)
(* up to a length over the characters float() looks at.                    *)
(***************************************************************************)
MaxArgLen == 3
ArgChars == {"0", "1", "9", ".", "-", "n", "a", "N", "i", "f", " "}

RECURSIVE Strings(_)
Strings(n) ==
    IF n = 0 THEN {<<>>}
    ELSE LET shorter == Strings(n - 1)
         IN  shorter \cup {Append(s, c) : s \in {t \in shorter : Len(t) = n - 1},
                                          c \in ArgChars}

InitV ==
    /\ frontend = "validate_marks"
    /\ pc = "call"
    /\ students = <<>> /\ file = Absent /\ out = "none" /\ saveOut = "none"
    /\ loc = NoLoc /\ ioFailures = 0 /\ ops = 0
    /\ tree = <<>> /\ dialog = NoDialog /\ search_var = <<>>
    /\ arg \in Strings(MaxArgLen)
    /\ ret = "none"

CallValidateMarks ==
    /\ frontend = "validate_marks" /\ pc = "call"
    /\ ret' = validate_marks(arg)
    /\ pc' = "returned"
    /\ UNCHANGED <<frontend, students, file, out, saveOut, loc, ioFailures, ops,
                   tree, dialog, search_var, arg>>

NextV == CallValidateMarks

SpecV == InitV /\ [][NextV]_vars

(***************************************************************************)
(* The class used as a library, the way demo_student_system.py uses it: a  *)
(* client holds a StudentManagementSystem, assigns its students list and   *)
(* calls its methods directly.                                             *)
(***************************************************************************)
\* sample_students of the demo
DemoStudents ==
    <<
       Student(<<"C","S","0","0","1">>,
               <<"A","l","i","c","e"," ","J","o","h","n","s","o","n">>,
               <<"2","0">>, <<"9","5">>),
       Student(<<"C","S","0","0","2">>,
               <<"B","o","b"," ","S","m","i","t","h">>,
               <<"1","9">>, <<"8","7">>),
       Student(<<"C","S","0","0","3">>,
               <<"C","h","a","r","l","i","e"," ","B","r","o","w","n">>,
               <<"2","1">>, <<"7","8">>),
       Student(<<"C","S","0","0","4">>,
               <<"D","i","a","n","a"," ","P","r","i","n","c","e">>,
               <<"2","0">>, <<"9","2">>),
       Student(<<"C","S","0","0","5">>,
               <<"E","v","e"," ","W","i","l","s","o","n">>,
               <<"1","9">>, <<"6","9">>) >>

\* the lists a client may have put in self.students
ApiStores == {<<>>, <<Al>>, DemoStudents}

InitApi ==
    /\ frontend = "api"
    /\ pc = "idle"
    /\ students \in ApiStores
    /\ file \in InitFiles
    /\ out = "none" /\ saveOut = "none"
    /\ loc = NoLoc /\ ioFailures = 0 /\ ops = 0
    /\ tree = <<>> /\ dialog = NoDialog /\ search_var = <<>>
    /\ arg = <<>>
    /\ ret = "none"

\* sms.load_data()
CallLoadData ==
    /\ frontend = "api"
    /\ LET r == load_data(students, file)
       IN  students' = r.students /\ out' = r.out
    /\ pc' = "load_data"
    /\ UNCHANGED <<loc, fixed>> /\ NoSave

\* sms.save_data()
CallSaveData ==
    /\ frontend = "api"
    /\ Save(students)
    /\ pc' = "save_data" /\ out' = "none"
    /\ UNCHANGED <<students, loc, fixed>>

\* the lines typed at "Enter search term: "
SearchTerms ==
    {<<"a","l","i","c","e">>,
     <<"l","i","c">>,
     <<"L","I">>,
     <<" ","c","s","0","0","3"," ">>,
     <<"C","S","0","0">>,
     <<"a","l">>,
     <<"z","z">>,
     <<>>,
     <<" ">>}

\* sms.search_student(), with the option and the term typed at its prompts;
\* ret is what it printed: the option, the stripped term, the rows listed
CallSearch ==
    /\ frontend = "api"
    /\ IF students = <<>>
       THEN /\ out' = "empty"
            /\ ret' = [choice |-> "", term |-> <<>>, found |-> <<>>]
       ELSE \E choice \in {"1", "2"}, s \in SearchTerms :
            LET search_term == Strip(s)
                found_students == Select(students, Found(students, choice, search_term))
            IN  IF search_term = <<>>
                THEN /\ out' = "term_empty"
                     /\ ret' = [choice |-> choice, term |-> search_term, found |-> <<>>]
                ELSE /\ out' = IF found_students = <<>> THEN "none_found"
                               ELSE IF MarksParse(found_students) THEN "found"
                               ELSE "ValueError"
                     /\ ret' = [choice |-> choice, term |-> search_term,
                                found |-> found_students]
    /\ pc' = "search_student"
    /\ UNCHANGED <<students, loc, frontend, ops, tree, dialog, search_var, arg>>
    /\ NoSave

\* sms.display_statistics(); ret is what it printed
CallStatistics ==
    /\ frontend = "api"
    /\ IF students = <<>> THEN out' = "empty" /\ ret' = "none"
       ELSE IF ~MarksParse(students) THEN out' = "ValueError" /\ ret' = "none"
       ELSE out' = "statistics" /\ ret' = display_statistics(students)
    /\ pc' = "display_statistics"
    /\ UNCHANGED <<students, loc, frontend, ops, tree, dialog, search_var, arg>>
    /\ NoSave

\* sms.view_all_students(), with the sort option typed at its prompt; ret is
\* the option and the rows of the table it printed
CallViewAll ==
    /\ frontend = "api"
    /\ IF students = <<>> THEN out' = "empty" /\ ret' = "none"
       ELSE IF ~MarksParse(students) THEN out' = "ValueError" /\ ret' = "none"
       ELSE \E choice \in {"1", "2", "3", "4"} :
            /\ out' = "table"
            /\ ret' = [choice |-> choice,
                       shown |-> Pick(students, sorted_students(students, choice))]
    /\ pc' = "view_all_students"
    /\ UNCHANGED <<students, loc, frontend, ops, tree, dialog, search_var, arg>>
    /\ NoSave

NextApi ==
    CallLoadData \/ CallSaveData \/ CallSearch \/ CallStatistics \/ CallViewAll

SpecApi == InitApi /\ [][NextApi]_vars

(***************************************************************************)
(* calculate_grade as a pure function: called on every marks value from 0  *)
(* to MaxMarks in steps of a thousandth.                                   *)
(***************************************************************************)
MaxMarks == 100

InitG ==
    /\ frontend = "calculate_grade"
    /\ pc = "call"
    /\ students = <<>> /\ file = Absent /\ out = "none" /\ saveOut = "none"
    /\ loc = NoLoc /\ ioFailures = 0 /\ ops = 0
    /\ tree = <<>> /\ dialog = NoDialog /\ search_var = <<>>
    /\ arg \in {Num(v) : v \in 0..(MaxMarks * Scale)}
    /\ ret = "none"

CallCalculateGrade ==
    /\ frontend = "calculate_grade" /\ pc = "call"
    /\ ret' = calculate_grade(arg)
    /\ pc' = "returned"
    /\ UNCHANGED <<frontend, students, file, out, saveOut, loc, ioFailures, ops,
                   tree, dialog, search_var, arg>>

NextG == CallCalculateGrade

SpecG == InitG /\ [][NextG]_vars

(***************************************************************************)
(* Properties                                                              *)
(***************************************************************************)
UpdPrompts == {"upd_name", "upd_age", "upd_marks"}
AddPrompts == {"add_name", "add_age", "add_marks"}

FourFields(st) == DOMAIN st = Range(FieldNames)

\* a record every validator would accept
ValidRecord(st) ==
    /\ Len(Strip(st["name"])) >= 2
    /\ LET a == ParseInt(st["age"]) IN a.ok /\ a.v >= 1 /\ a.v <= 150
    /\ LET m == ParseFloat(st["marks"])
       IN  m.kind = "num" /\ m.v >= 0 /\ m.v <= 100 * Scale

\* C1: in every reachable state no two records of the store have the same
\* roll_number.
C1_UniqueRollNumbers ==
    \A i, j \in 1..Len(students) :
        i # j => students[i]["roll_number"] # students[j]["roll_number"]

\* every record of the store has the four fields and valid values
ValidStore == \A i \in 1..Len(students) : FourFields(students[i]) /\ ValidRecord(students[i])

\* C2: an add whose roll number equals an existing record's roll number
\* ignoring case is rejected: add_student never gets past its roll number
\* prompt with such a roll number, so the store cannot grow by it.  (Stated
\* for stores of valid records, which is all a refutation needs.)
C2_CaseInsensitiveDuplicateRejected ==
    (frontend = "cli" /\ pc \in AddPrompts /\ ValidStore) =>
        \A i \in 1..Len(students) :
            LowerStr(students[i]["roll_number"]) # LowerStr(loc.roll)

\* C3: for every non-empty store whose records have exactly the four fields
\* (every collection of valid records is one), saving and then loading the
\* saved file succeeds and yields the same set of records.
C3_RoundTrip ==
    (students # <<>> /\ \A i \in 1..Len(students) : FourFields(students[i])) =>
        \A r \in save_data(students, file, "none") :
            /\ r.ok
            /\ Range(load_data(students, r.file).students) = Range(students)

C3_Witness ==
    /\ frontend = "cli" /\ pc = "done" /\ saveOut = "ok"
    /\ Len(students) = 2
    /\ \A i \in 1..Len(students) : FourFields(students[i]) /\ ValidRecord(students[i])
    /\ load_data(<<>>, file).students = students

\* C4: an update commits no field before it completes: no step taken at a
\* prompt of update_student that leaves the update in progress changes the
\* store, so an update abandoned there has changed nothing.  (Stated for
\* stores of valid records, which is all a refutation needs.)
C4_NoPartialUpdate ==
    [][(frontend = "cli" /\ pc \in UpdPrompts /\ pc' \in UpdPrompts /\ ValidStore)
        => students' = students]_vars

C6_FileMatchesMemory ==
    (/\ frontend = "cli"
     /\ \/ pc \in {"continue", "menu"} /\ out \in {"added", "updated", "deleted"}
        \/ pc = "done"
     /\ saveOut # "fail")
    => load_data(<<>>, file).students = students

C6_Witness ==
    /\ frontend = "cli" /\ pc = "menu" /\ out = "updated" /\ saveOut = "ok"
    /\ ioFailures > 0
    /\ students # <<>>
    /\ load_data(<<>>, file).students = students

\* C7: in every reachable state every record of the store has a name of
\* trimmed length at least 2, an integer age in 1..150 and numeric marks in
\* 0..100.
C7_AllRecordsValid ==
    \A i \in 1..Len(students) : ValidRecord(students[i])

\* C8: validate_marks returns a number exactly when its argument parses as a
\* decimal number whose value lies in 0..100, and None otherwise.
C8_MarksInRange ==
    (frontend = "validate_marks" /\ pc = "returned") =>
        LET m == ParseFloat(arg)
            in_range == m.kind = "num" /\ m.v >= 0 /\ m.v <= 100 * Scale
        IN  /\ ret.ok = in_range
            /\ ret.ok => ret.v = m

\* C9: a successful add appends exactly one record, built from the roll
\* number, the title-cased name and the validated age and marks that were
\* entered, after the records that were there, which it leaves as they were;
\* the lookup by that roll number then finds the new record.
C9_AddAppends ==
    [][(frontend = "cli" /\ pc = "add_marks" /\ out' = "added") =>
        LET new == students'[Len(students')]
        IN  /\ Len(students') = Len(students) + 1
            /\ SubSeq(students', 1, Len(students)) = students
            /\ new["roll_number"] = loc.roll
            /\ new["name"] = Title(loc.name)
            /\ ParseInt(new["age"]) = [ok |-> TRUE, v |-> loc.age]
            /\ \E s \in MarksInputs :
                LET marks == validate_marks(Strip(s))
                IN  marks.ok /\ ParseFloat(new["marks"]) = marks.v
            /\ FourFields(new)
            /\ FindExact(students', loc.roll) = Len(students')
            /\ Len(students') \in SearchByRoll(students', loc.roll)]_vars

C9_Witness ==
    /\ frontend = "cli" /\ pc = "continue" /\ out = "added"
    /\ Len(students) = 2
    /\ students[1] = Al
    /\ students[2]["name"] = <<"B","o"," ","B">>
    /\ students[2]["marks"] = <<"9","5",".","0">>

\* C10: a delete whose roll number matches no record reports not-found and
\* changes neither the store nor the file: the roll number prompt of
\* delete_student goes on to the confirmation only with the index of a
\* record that has exactly the roll number typed, reports otherwise, and
\* leaves store and file as they were.
C10_DeleteNotFound ==
    [][(frontend = "cli" /\ pc = "del_roll" /\ pc' \in {"del_confirm", "continue"}) =>
        /\ students' = students
        /\ file' = file
        /\ pc' = "del_confirm" =>
             /\ loc'.idx \in 1..Len(students)
             /\ students[loc'.idx]["roll_number"] = loc'.roll
        /\ pc' = "continue" =>
             /\ out' \in {"del_not_found", "roll_empty"}
             /\ out' = "del_not_found" =>
                  \E s \in RollInputs :
                      /\ Strip(s) # <<>>
                      /\ \A i \in 1..Len(students) :
                            students[i]["roll_number"] # Strip(s)]_vars

C10_Witness ==
    /\ frontend = "cli" /\ pc = "continue" /\ out = "del_not_found"
    /\ students = <<Al>>
    /\ load_data(<<>>, file).students = students

\* C11: a confirmed delete removes exactly one record, one whose roll_number
\* is exactly the roll number typed, and keeps every other record in its
\* place relative to the others; when the write succeeded the file reads
\* back as the new store.  An answer of n / no leaves the store and the file
\* as they were.
C11_DeleteRemovesOne ==
    [][(frontend = "cli" /\ pc = "del_confirm") =>
        /\ out' = "deleted" =>
             /\ \E i \in 1..Len(students) :
                    /\ students[i]["roll_number"] = loc.roll
                    /\ Len(students') = Len(students) - 1
                    /\ \A j \in 1..(i - 1) : students'[j] = students[j]
                    /\ \A j \in i..Len(students') : students'[j] = students[j + 1]
             /\ saveOut' = "ok" => load_data(<<>>, file').students = students'
        /\ out' = "cancelled" => students' = students /\ file' = file]_vars

C11_Witness ==
    /\ frontend = "cli" /\ pc = "continue" /\ out = "deleted" /\ saveOut = "ok"
    /\ Len(students) = 1
    /\ students[1]["roll_number"] = <<"c","s","1">>
    /\ load_data(<<>>, file).students = students

\* C12: a save that fails leaves in the file either what was there before
\* or the complete new content (a file that reads back as the store), never
\* a truncated or partly written file.  (Stated for saves during which the
\* environment raised no I/O error, which is all a refutation needs.)
C12_NoPartialWrite ==
    [][(saveOut' = "fail" /\ ioFailures' = 0) =>
        \/ file' = file
        \/ load_data(<<>>, file').students = students']_vars

\* C13: a load that fails (the file is there but cannot be read or parsed)
\* leaves the in-memory list as it was before the call.
C13_FailedLoadKeepsStore ==
    [][(frontend = "api" /\ pc' = "load_data" /\ out' = "load_error") =>
        students' = students]_vars

\* C14: a file that is there but cannot be loaded is not treated like an
\* absent one: the failure reaches the caller of the constructor, so the
\* program does not go on with an empty store, and no later save writes over
\* the file that could not be read.
C14_CorruptFileNotOverwritten ==
    [][(frontend = "cli" /\ file.kind = "corrupt") => file' = file]_vars

\* C15: load_data called as a reload when the file is absent discards the
\* in-memory list: the list is empty afterwards, and no failure is reported.
C15_ReloadAbsentEmpties ==
    [][(frontend = "api" /\ pc' = "load_data" /\ file.kind = "absent") =>
        students' = <<>> /\ out' = "no_file"]_vars

\* C16: a save that fails takes nothing back: after an add, an update or a
\* delete whose save failed the list holds the change the handler made, after
\* a failed save on exit the list is what it was, and the handler returns to
\* run() as usual, so the store goes on being used.
C16_FailedSaveKeepsMemory ==
    [][(frontend = "cli" /\ saveOut' = "fail") =>
        /\ (pc = "add_marks" /\ out' = "added") =>
             /\ Len(students') = Len(students) + 1
             /\ SubSeq(students', 1, Len(students)) = students
             /\ students'[Len(students')]["roll_number"] = loc.roll
             /\ pc' = "continue"
        /\ (pc \in UpdPrompts /\ out' = "updated") =>
             /\ Len(students') = Len(students)
             /\ \A i \in 1..Len(students) : i # loc.idx => students'[i] = students[i]
             /\ LET old == students[loc.idx]
                    new == students'[loc.idx]
                IN  /\ pc = "upd_name" =>
                         \E s \in NameInputs :
                             /\ validate_name(Strip(s))
                             /\ new = [old EXCEPT !["name"] = Title(Strip(s))]
                    /\ pc = "upd_age" =>
                         \/ new = old
                         \/ \E s \in AgeInputs :
                                LET age == validate_age(Strip(s))
                                IN  age.ok /\ new = [old EXCEPT !["age"] = IntStr(age.v)]
                    /\ pc = "upd_marks" =>
                         \/ new = old
                         \/ \E s \in MarksInputs :
                                LET marks == validate_marks(Strip(s))
                                IN  marks.ok /\ new = [old EXCEPT !["marks"] = FloatStr(marks.v)]
             /\ pc' = "continue"
        /\ (pc = "del_confirm" /\ out' = "deleted") =>
             /\ Len(students') = Len(students) - 1
             /\ pc' = "continue"
        /\ (pc # "done" /\ pc' = "done") => students' = students]_vars

C16_Witness ==
    /\ frontend = "cli" /\ pc = "continue" /\ out = "added" /\ saveOut = "fail"
    /\ Len(students) = 2
    /\ students[1] = Al
    /\ students[2]["roll_number"] = <<"c","s","1">>
    /\ load_data(<<>>, file).students # students

\* the file a successful save of sts is said to leave: the header row, then
\* one row per record in list order
ExpectedFile(sts) == Csv(FieldNames, [i \in 1..Len(sts) |-> DictToList(sts[i])])

\* C17: after every successful save, whatever the size of the store, the
\* file is the header roll_number, name, age, marks followed by exactly one
\* row per record in store order, and nothing else.
C17_FileFormat ==
    (frontend = "cli" /\ saveOut = "ok") => file = ExpectedFile(students)

\* equality and containment of strings ignoring case
EqIgnoreCase(a, b) ==
    Len(a) = Len(b) /\ \A i \in 1..Len(a) : Upper(a[i]) = Upper(b[i])
ContainsIgnoreCase(b, a) ==
    \E k \in 0..(Len(b) - Len(a)) : \A j \in 1..Len(a) : Upper(b[k + j]) = Upper(a[j])

Matches(st, choice, term) ==
    IF choice = "1" THEN EqIgnoreCase(st["roll_number"], term)
    ELSE ContainsIgnoreCase(st["name"], term)

\* found holds exactly the matching records of sts, in the order of sts
IsSearchResult(found, sts, choice, term) ==
    LET M == {i \in 1..Len(sts) : Matches(sts[i], choice, term)}
    IN  /\ Len(found) = Cardinality(M)
        /\ \A i \in M : found[Cardinality({j \in M : j <= i})] = sts[i]

\* the search listed exactly the matching records in store order, or said
\* that there is none; it reported no error
SearchResultOk ==
    /\ out \in {"found", "none_found"}
    /\ out = "none_found" <=> ret.found = <<>>
    /\ IsSearchResult(ret.found, students, ret.choice, ret.term)

\* C18: search by roll lists exactly the records whose roll_number equals
\* the term ignoring case, search by name exactly those whose name contains
\* the term ignoring case, in store order, and no match gives an empty
\* result, not an error.  The term is the one the matching loops get: what
\* was typed, stripped, and not empty (search_student turns an empty term
\* away before it searches).
C18_SearchExact ==
    (frontend = "api" /\ pc = "search_student" /\ students # <<>> /\ ret.term # <<>>)
        => SearchResultOk

C18_Witness ==
    /\ frontend = "api" /\ pc = "search_student" /\ out = "found"
    /\ students = DemoStudents
    /\ ret.choice = "2" /\ ret.term = <<"L","I">>
    /\ ret.found = <<DemoStudents[1], DemoStudents[3]>>

Grades == {"A+", "A", "B+", "B", "C", "D", "F"}

\* C19: the grade of marks m is A+ when m >= 90, A when 80 <= m < 90, B+
\* when 70 <= m < 80, B when 60 <= m < 70, C when 50 <= m < 60, D when
\* 40 <= m < 50 and F when m < 40; it is one of the seven grades and depends
\* on m alone.
C19_GradeThresholds ==
    (frontend = "calculate_grade" /\ pc = "returned") =>
        LET m == arg.v
            in(lo, hi) == lo * Scale <= m /\ m < hi * Scale
        IN  /\ ret \in Grades
            /\ ret = "A+" <=> m >= 90 * Scale
            /\ ret = "A" <=> in(80, 90)
            /\ ret = "B+" <=> in(70, 80)
            /\ ret = "B" <=> in(60, 70)
            /\ ret = "C" <=> in(50, 60)
            /\ ret = "D" <=> in(40, 50)
            /\ ret = "F" <=> m < 40 * Scale

C19_Witness ==
    /\ frontend = "calculate_grade" /\ pc = "returned"
    /\ arg = Num(89999) /\ ret = "A"

\* the sum of the marks of sts, all of them numbers
RECURSIVE SumOfMarks(_)
SumOfMarks(sts) ==
    IF sts = <<>> THEN 0
    ELSE ParseFloat(Head(sts)["marks"]).v + SumOfMarks(Tail(sts))

\* r is the statistics of the store sts: the count, the mean, the largest
\* and the smallest marks, and how many records have each grade
StatsCorrect(sts, r) ==
    LET n == Len(sts)
        m(i) == ParseFloat(sts[i]["marks"])
    IN  /\ \A i \in 1..n : m(i).kind = "num"
        /\ r.total_students = n
        /\ r.avg_marks.kind = "num"
        /\ r.avg_marks.v = SumOfMarks(sts) /\ r.avg_marks.den = n
        /\ r.highest_marks.kind = "num"
        /\ \E i \in 1..n : m(i).v = r.highest_marks.v
        /\ \A i \in 1..n : m(i).v <= r.highest_marks.v
        /\ r.lowest_marks.kind = "num"
        /\ \E i \in 1..n : m(i).v = r.lowest_marks.v
        /\ \A i \in 1..n : m(i).v >= r.lowest_marks.v
        /\ \A g \in Grades :
              r.grades[g] = Cardinality({i \in 1..n : calculate_grade(m(i)) = g})
        /\ r.grades["A+"] + r.grades["A"] + r.grades["B+"] + r.grades["B"]
              + r.grades["C"] + r.grades["D"] + r.grades["F"] = n

\* C20: for a non-empty store the statistics shown are the number of
\* records, the mean (sum of the marks over the count), the largest and the
\* smallest marks, and a grade histogram that counts every record under its
\* grade and sums to the count.
C20_Statistics ==
    (frontend = "cli" /\ pc = "continue" /\ out = "statistics") =>
        StatsCorrect(students, display_statistics(students))

\* C21: statistics are never computed on an empty store: whenever the
\* statistics are on display (CLI) or the statistics window was opened (GUI)
\* the store has a record; for an empty store the notice is given instead.
C21_NoStatisticsOnEmpty ==
    /\ out \in {"statistics", "statistics_window"} => students # <<>>
    /\ (frontend = "gui" /\ out = "no_students_info") => students = <<>>

C21_Witness ==
    /\ frontend = "gui" /\ pc = "mainloop" /\ out = "no_students_info"
    /\ students = <<>>

\* x >= y on two floats: false when either is nan
FloatGEq(x, y) == x.kind # "nan" /\ y.kind # "nan" /\ ~FloatLT(x, y)

IsPermutation(idxs, n) ==
    Len(idxs) = n /\ \A k \in 1..n : \E i \in 1..n : idxs[i] = k

\* idxs lists the records of sts by non-increasing marks, records with
\* equal marks in store order
MarksDescOk(sts, idxs) ==
    LET m(i) == ParseFloat(sts[idxs[i]]["marks"])
    IN  /\ IsPermutation(idxs, Len(sts))
        /\ \A i, j \in 1..Len(sts) : i < j =>
              /\ FloatGEq(m(i), m(j))
              /\ m(i) = m(j) => idxs[i] < idxs[j]

\* idxs lists the records of sts by name, compared ignoring case
NameOrderOk(sts, idxs) ==
    LET name(i) == LowerStr(sts[idxs[i]]["name"])
    IN  /\ IsPermutation(idxs, Len(sts))
        /\ \A i, j \in 1..Len(sts) : i < j =>
              /\ ~StrLT(name(j), name(i))
              /\ name(i) = name(j) => idxs[i] < idxs[j]

\* C22: the table sorted by marks (option 3) is a permutation of the store
\* by non-increasing marks in which records with equal marks keep their
\* store order, and the table sorted by name (option 2) is ordered by the
\* names compared ignoring case.  (Stated for stores with distinct roll
\* numbers whose marks validate_marks accepts, which is all a refutation
\* needs.)
C22_SortOrder ==
    (/\ frontend = "cli" /\ pc = "continue" /\ out = "table"
     /\ C1_UniqueRollNumbers
     /\ \A i \in 1..Len(students) : validate_marks(students[i]["marks"]).ok) =>
        /\ MarksDescOk(students, sorted_students(students, "3"))
        /\ NameOrderOk(students, sorted_students(students, "2"))

\* C23: the read-only operations (the listing with any sort key, search,
\* statistics, the GUI's filtering and export) leave the in-memory list, its
\* order included, and the data file as they were.
\* a step of ViewSort, SearchChoice or SearchTerm is one from their prompt
\* that is not the KeyboardInterrupt, which leaves run()
ReadOnlyStep ==
    \/ /\ frontend = "cli" /\ pc \in {"view_sort", "search_choice", "search_term"}
       /\ pc' # "done"
    \/ /\ frontend = "cli" /\ pc = "menu"
       /\ (MenuView \/ MenuSearch \/ MenuStatistics)
    \/ /\ frontend = "gui"
       /\ (on_search_change \/ show_statistics \/ export_data)

C23_ReadOnly ==
    [][ReadOnlyStep => (students' = students /\ file' = file)]_vars

\* a table was printed in an order that is not the list's order
C23_Witness ==
    /\ frontend = "cli" /\ pc = "continue" /\ out = "table"
    /\ MarksParse(students)
    /\ \E c \in {"1", "2", "3"} :
            Pick(students, sorted_students(students, c)) # students

\* C24: in an update a blank input never clears a field: each prompt of
\* update_student leaves every record and every field as it was, except that
\* it may set its own field of the chosen record to a non-empty value its
\* validator accepts; 'updated' is reported, and the file written, only when
\* a value was accepted, and 'no changes' leaves list and file as they were.
\* a step of UpdName, UpdAge or UpdMarks: from a prompt of update_student to
\* its next prompt or to its end (an EOFError leads to the menu, a
\* KeyboardInterrupt out of run())
UpdStep ==
    /\ frontend = "cli" /\ pc \in UpdPrompts
    /\ pc' \in UpdPrompts \cup {"continue"}

UpdField == IF pc = "upd_name" THEN "name"
            ELSE IF pc = "upd_age" THEN "age" ELSE "marks"

\* the values the prompts of update_student store for their inputs
AcceptedNames ==
    {Title(Strip(s)) : s \in {t \in NameInputs : validate_name(Strip(t))}}
AcceptedAges ==
    {IntStr(validate_age(Strip(s)).v) :
        s \in {t \in AgeInputs : Strip(t) # <<>> /\ validate_age(Strip(t)).ok}}
AcceptedMarks ==
    {FloatStr(validate_marks(Strip(s)).v) :
        s \in {t \in MarksInputs : Strip(t) # <<>> /\ validate_marks(Strip(t)).ok}}

\* v is what the prompt at pc stores for one of its inputs
UpdAccepts(v) ==
    IF pc = "upd_name" THEN v \in AcceptedNames
    ELSE IF pc = "upd_age" THEN v \in AcceptedAges
    ELSE v \in AcceptedMarks

C25_GuiLoadsFile ==
    [][(frontend = "gui" /\ pc = "init" /\ file.kind = "csv") =>
        students' = DictReader(file)]_vars

\* C26: starting a front-end on an existing data file and leaving it without
\* an add, update or delete leaves the file with the records it had.  No
\* handler was started in the CLI while ops = 0, and the GUI shows what its
\* load reported until a handler reports something else, so in both the file
\* is still the one found at start-up.  (Stated for runs in which no write
\* fails, which is all a refutation needs.)
ExitStep == MenuExit \/ Interrupt \/ on_closing

Records(f) == Range(load_data(<<>>, f).students)

C26_StartExitKeepsFile ==
    [][(/\ ExitStep
        /\ file.kind = "csv"
        /\ ioFailures' = ioFailures
        /\ IF frontend = "cli" THEN ops = 0
           ELSE out \in {"loaded", "no_file", "load_error_box"}) =>
        Records(file') = Records(file)]_vars
\* C27: in the GUI, a Save in the Add dialog with valid values appends the
\* submitted record to the list (and a Save in the Edit dialog applies it to
\* the selected record), and the list is saved.
C27_DialogSaveApplies ==
    [][(save_student /\ dialog.open /\ ~dialog'.open) =>
        /\ Len(dialog'.result) = 1
        /\ \E i \in 1..Len(students') : students'[i] = dialog'.result[1]
        /\ Records(file') = Range(students')]_vars
\* C28: every term for which search by roll number lists a record is also
\* found by the lookup of update_student and delete_student, which selects
\* that same record; search by roll number lists at most one record.
C28_SearchAgreesWithLookup ==
    (/\ frontend = "api" /\ pc = "search_student"
     /\ ret.choice = "1" /\ ret.found # <<>>) =>
        /\ Len(ret.found) = 1
        /\ FindExact(students, ret.term) # 0
        /\ students[FindExact(students, ret.term)] = ret.found[1]
(***************************************************************************)
(* StudentGUI's handlers on a window whose list holds records: the state   *)
(* create_widgets() and refresh_table() leave for a populated list.  The   *)
(* handlers are the ones of GuiNext; StudentGUI() itself reaches only the  *)
(* empty list (C25, C27), so what the handlers do with rows is specified   *)
(* here, on the lists they are written for.                                *)
(***************************************************************************)
GuiStudent(roll_number, name) == Student(roll_number, name, <<"7">>, <<"9","5",".","0">>)

GuiStores ==
    { <<Al>>,
      <<GuiStudent(<<"1","2">>, <<"B","o">>)>>,
      <<Al, GuiStudent(<<"1","2">>, <<"B","o">>)>>,
      <<GuiStudent(<<"0","0","7">>, <<"A","l">>), GuiStudent(<<"7">>, <<"B","o">>)>>,
      <<GuiStudent(<<"c","s","1">>, <<"B","o">>), Al>> }

InitGui ==
    /\ frontend = "gui"
    /\ pc = "mainloop"
    /\ students \in GuiStores
    /\ file = Csv(FieldNames, [i \in 1..Len(students) |-> DictToList(students[i])])
    /\ out = "loaded" /\ saveOut = "none"
    /\ loc = NoLoc /\ ioFailures = 0 /\ ops = 0
    /\ search_var = <<>>
    /\ tree = refresh_table(students, search_var)
    /\ dialog = NoDialog
    /\ arg = <<>>
    /\ ret = "none"

NextGui ==
    \/ add_student_dialog \/ edit_student_dialog \/ gui_delete_student
    \/ save_student \/ cancel_dialog \/ on_search_change \/ on_closing
    \/ show_statistics \/ export_data

SpecGui == InitGui /\ [][NextGui]_vars

EofStores ==
    {<<>>, <<Al>>, DemoStudents,
     <<Al, Student(<<"c","s","1">>, <<"B","o">>, <<"7">>, <<"1","0","0",".","0">>)>>}

\* the prompts of a handler just started, and what was printed before them
EofPrompts(sts) ==
    {[pc |-> "add_roll", out |-> "add_banner", loc |-> NoLoc]}
    \cup (IF sts = <<>>
          THEN {[pc |-> "continue", out |-> "empty", loc |-> NoLoc]}
          ELSE {[pc |-> "view_sort", out |-> "sort_options", loc |-> NoLoc],
                [pc |-> "search_choice", out |-> "search_options", loc |-> NoLoc],
                [pc |-> "upd_roll", out |-> "update_banner", loc |-> NoLoc],
                [pc |-> "del_roll", out |-> "delete_banner", loc |-> NoLoc],
                [pc |-> "continue", out |-> "statistics", loc |-> NoLoc]}
               \cup {[pc |-> "search_term", out |-> "search_options",
                      loc |-> [NoLoc EXCEPT !.choice = c]] : c \in {"1", "2"}}
               \cup {[pc |-> p.pc, out |-> p.out,
                      loc |-> [NoLoc EXCEPT !.roll = sts[i]["roll_number"], !.idx = i]] :
                        p \in {[pc |-> "upd_choice", out |-> "current_details"],
                               [pc |-> "del_confirm", out |-> "confirm_prompt"]},
                        i \in 1..Len(sts)})

InitEof ==
    /\ frontend = "cli"
    /\ students \in EofStores
    /\ saveOut = "none" /\ ioFailures = 0
    /\ \/ /\ pc = "init" /\ students = <<>> /\ loc = NoLoc /\ ops = 0
          /\ file \in InitFiles
          /\ out = "none"
       \/ /\ file \in (IF students = <<>> THEN {Absent, Csv(<<>>, <<>>)}
                       ELSE {Csv(FieldNames,
                                 [i \in 1..Len(students) |-> DictToList(students[i])])})
          /\ \/ /\ pc = "menu" /\ loc = NoLoc /\ ops = 0
                /\ out = IF file.kind = "csv" THEN "loaded" ELSE "no_file"
             \/ /\ ops \in 1..MaxOps
                /\ \E p \in EofPrompts(students) :
                      pc = p.pc /\ out = p.out /\ loc = p.loc
    /\ tree = <<>> /\ dialog = NoDialog /\ search_var = <<>>
    /\ arg = <<>>
    /\ ret = "none"

\* the top of the while loop: display_menu() prints the menu again
DisplayMenu ==
    /\ frontend = "cli" /\ pc = "menu"
    /\ out' = "menu"
    /\ UNCHANGED <<pc, students, file, saveOut, loc, ioFailures, fixed>>

NextEof == CliConstruct \/ DisplayMenu \/ EndOfInput

SpecEof == InitEof /\ [][NextEof]_vars /\ WF_vars(NextEof)

\* C30: the CLI main loop terminates: once the input is exhausted, run()
\* eventually saves and returns.
C30_LoopTerminates == <>(frontend = "cli" /\ pc = "done" /\ saveOut # "none")
====
